---- MODULE Spec2Model ----
(***************************************************************************)
(* The per-call session of the /coral-stream WebSocket route of            *)
(* src/server.js: one telephony leg (connection), one model leg            *)
(* (openAiWs), the closure variables of the connection handler, the        *)
(* timers it arms and the commands, frames and log entries it emits.       *)
(*                                                                         *)
(* Text is a sequence of one-character strings.  NULL stands for the       *)
(* JavaScript null / undefined; the string "null" is the literal text.     *)
(***************************************************************************)
EXTENDS Integers, Sequences, FiniteSets, TLC

NULL == "<null>"

(***************************************************************************)
(* Bounds of the model.                                                    *)
(***************************************************************************)
\* longest text of a content fragment in the Turn Enforcer specification
MaxLen == 4
\* pending 100 ms greeting timers (one per session.updated event)
MaxGreetTimers == 1
\* audio-append commands forwarded to the model leg
MaxMedia == 1
\* audio frames forwarded to the telephony leg
MaxDeltas == 1
\* append-message calls of one session
MaxSaved == 1
\* caller transcripts of one session
MaxTranscripts == 3

(***************************************************************************)
(* Text helpers: String.prototype.trim, replace(/\s+/g, ' '), split('?'),  *)
(* match(/\?/g), Array.prototype.join(' ').                                *)
(***************************************************************************)
Chars == {"a", "?", " "}

Whitespace == {" ", "\t", "\n"}

IsSpace(c) == c \in Whitespace

Str(n) == UNION {[1..k -> Chars] : k \in 0..n}

RECURSIVE TrimLeft(_)
TrimLeft(s) ==
    IF s = <<>> THEN <<>>
    ELSE IF IsSpace(Head(s)) THEN TrimLeft(Tail(s))
    ELSE s

RECURSIVE TrimRight(_)
TrimRight(s) ==
    IF s = <<>> THEN <<>>
    ELSE IF IsSpace(s[Len(s)]) THEN TrimRight(SubSeq(s, 1, Len(s) - 1))
    ELSE s

Trim(s) == TrimRight(TrimLeft(s))

RECURSIVE CollapseWs(_)
CollapseWs(s) ==
    IF s = <<>> THEN <<>>
    ELSE IF IsSpace(Head(s)) THEN <<" ">> \o CollapseWs(TrimLeft(s))
    ELSE <<Head(s)>> \o CollapseWs(Tail(s))

RECURSIVE JoinSpace(_)
JoinSpace(parts) ==
    IF parts = <<>> THEN <<>>
    ELSE IF Len(parts) = 1 THEN parts[1]
    ELSE parts[1] \o <<" ">> \o JoinSpace(Tail(parts))

RECURSIVE QmCount(_)
QmCount(s) ==
    IF s = <<>> THEN 0
    ELSE (IF Head(s) = "?" THEN 1 ELSE 0) + QmCount(Tail(s))

\* content.split('?')[0]: the text before the first question mark
RECURSIVE SplitFirst(_)
SplitFirst(s) ==
    IF s = <<>> THEN <<>>
    ELSE IF Head(s) = "?" THEN <<>>
    ELSE <<Head(s)>> \o SplitFirst(Tail(s))

(***************************************************************************)
(* Assistant content normalization and the single-question rule.           *)
(***************************************************************************)
Placeholder ==
    <<"A","s","s","i","s","t","a","n","t"," ","m","e","s","s","a","g","e">>

\* c?.transcript || c?.text || ''   (an absent field and '' are both falsy)
PartText(c) == IF c.transcript # <<>> THEN c.transcript ELSE c.text

RECURSIVE PartTexts(_)
PartTexts(content) ==
    IF content = <<>> THEN <<>>
    ELSE <<PartText(Head(content))>> \o PartTexts(Tail(content))

NonEmpty(s) == s # <<>>

NormalizeContent_FirstPart(content) ==
    LET parts == SelectSeq(PartTexts(SubSeq(content, 1, 1)), NonEmpty)
        text  == Trim(CollapseWs(JoinSpace(parts)))
    IN  IF text = <<>> THEN Placeholder ELSE text

NormalizeContent(content) ==
    LET parts == SelectSeq(PartTexts(content), NonEmpty)
        text  == Trim(CollapseWs(JoinSpace(parts)))
    IN  IF text = <<>> THEN Placeholder ELSE text

FirstQ_NoTrim(content) == SplitFirst(content) \o <<"?">>

FirstQ(content) == Trim(SplitFirst(content)) \o <<"?">>

(***************************************************************************)
(* Commands on the model leg, frames on the telephony leg, log entries.    *)
(***************************************************************************)
Cmd(type, text, audio, voice) ==
    [type |-> type, text |-> text, audio |-> audio, voice |-> voice]

INTRO_VOICE == "alloy"

\* the session configuration: instructions, codecs, transcription, turn detection
SessionUpdate == Cmd("session.update", <<"SYSTEM_MESSAGE">>, "", INTRO_VOICE)

\* the scripted opening line (it holds no question mark)
GreetingText == <<"H", "i">>

GreetingItem == Cmd("conversation.item.create", GreetingText, "", "")

ResponseCreate == Cmd("response.create", <<>>, "", "")

ResponseCancel == Cmd("response.cancel", <<>>, "", "")

SingleItem(text) == Cmd("conversation.item.create", text, "", "")

AudioAppend(payload) == Cmd("input_audio_buffer.append", <<>>, payload, "")

MediaFrame(sid, payload) == [event |-> "media", streamSid |-> sid, payload |-> payload]

\* a frame or event as it arrived: its payload, and whether the leg it is relayed
\* to was open at that moment
Received(payload, open) == [payload |-> payload, open |-> open]

Message(conversationId, role, content) ==
    [conversation_id |-> conversationId, role |-> role, content |-> content]

Item(type, role, content) == [type |-> type, role |-> role, content |-> content]

Part(transcript, text) == [transcript |-> transcript, text |-> text]

NoItem == Item(NULL, NULL, <<>>)

Event(kind, item) == [kind |-> kind, item |-> item]

NoEvent == Event("other", NoItem)

VARIABLES
    readyState,        \* openAiWs.readyState
    connOpen,          \* the telephony socket is open
    streamSid,
    streamStarted,
    greetingSent,
    wantGreeting,
    wsConversationId,
    fallbackTimer,     \* the 1.5 s timer of the open handler is pending
    greetTimers,       \* pending 100 ms timers of session.updated
    modelOut,          \* commands sent on the model leg, in order
    telOut,            \* frames sent on the telephony leg, in order
    saved,             \* append-message inserts issued by saveMessage
    outstanding,       \* Controller response triggers neither cancelled nor completed
    lastEvent,         \* the model event whose handler ran last, when it carried text
    isIntroPhase,
    endingCall,
    pendingClose,      \* the closing summary was requested and awaits confirmation
    coverage,          \* the mandatory topics covered so far
    heard,             \* caller transcripts handled
    extractionsPending,\* extraction requests dispatched and not yet merged
    summaryPending,    \* a requested closing summary has not come back yet
    summaryRequests,   \* closing summaries requested
    completedCalls,    \* mark-completed calls issued
    convStatus,        \* conversations.status of the session's conversation row
    closeTimer,        \* the grace delay before the legs are closed is running
    closeCalls,        \* times the Closing Protocol closed the legs
    queryId,           \* conversation_id of the WebSocket URL, as received
    startCp,           \* customParameters.conversation_id of the start frame handled
    mediaIn,           \* media frames received on the telephony leg, in order
    deltaIn,           \* response.audio.delta events received on the model leg, in order
    echoed,            \* submitted conversation items the model has reported as created
    settled,           \* append-message calls whose result has come back
    clinicalData,      \* conversations.clinical_data of the session's conversation
    extractions,       \* the requests to /api/extract-clinical-data, each with its position
    peer,              \* the session of a second call served by the same process
    stored,            \* the appends POST /api/messages has stamped and inserted, in that order
    twiml              \* the conversation_id parameter of the TwiML /webhook/voice answered with

vars == <<readyState, connOpen, streamSid, streamStarted, greetingSent,
          wantGreeting, wsConversationId, fallbackTimer, greetTimers,
          modelOut, telOut, saved, outstanding, lastEvent,
          isIntroPhase, endingCall, pendingClose, coverage, heard, extractionsPending,
          summaryPending,
          summaryRequests, completedCalls, convStatus, closeTimer, closeCalls,
          queryId, startCp, mediaIn, deltaIn, echoed,
          settled, clinicalData, extractions, peer, stored, twiml>>

closingVars == <<isIntroPhase, endingCall, pendingClose, coverage, heard,
                 extractionsPending,
                 summaryPending, summaryRequests, completedCalls, convStatus,
                 closeTimer, closeCalls>>

receivedVars == <<queryId, startCp, mediaIn, deltaIn>>

historyVars == <<receivedVars, echoed>>

\* what lives outside the session: collaborator calls, the stored record, the other call
outsideVars == <<settled, clinicalData, extractions, peer, stored, twiml>>

\* the session itself, with the records of what it received
callVars == <<readyState, connOpen, streamSid, streamStarted, greetingSent,
              wantGreeting, wsConversationId, fallbackTimer, greetTimers,
              modelOut, telOut, saved, outstanding, lastEvent, closingVars,
              historyVars>>

(***************************************************************************)
(* Inputs.                                                                 *)
(***************************************************************************)
\* conversation_id of the WebSocket URL
QueryIds == {NULL, "null", "q1"}

\* start.customParameters.conversation_id
CustomIds == {NULL, "null", "c1"}

Sids == {"MZ1"}

\* response.delta / media.payload: canonical and unpadded base64 of one byte
Payloads == {"QQ==", "QQ"}

\* the payloads of the session specification
SessionPayloads == {"QQ=="}

\* response.delta of the relay specification: unpadded base64 of the byte 65,
\* canonical base64 of the byte 66, and the empty string
Deltas == {"QQ", "Qg==", ""}

\* Buffer.from(delta, 'base64').toString('base64') re-encodes with padding
Base64RoundTrip_Identity(delta) == delta

Base64RoundTrip(delta) == IF delta = "QQ" THEN "QQ==" ELSE delta

T(s) == Part(s, <<>>)

\* items of conversation.item.created events in the session specification
Items ==
    { Item("message", "assistant", <<T(<<"a", "?">>)>>),
      Item("message", "assistant", <<T(<<"a", "?">>), T(<<"a", "?">>)>>),
      Item("message", "user", <<T(<<"a", "?", "?">>)>>) }

(***************************************************************************)
(* The model service's view of the Controller's response triggers:         *)
(* response.create starts one, response.cancel cancels the one in          *)
(* progress.                                                               *)
(***************************************************************************)
RECURSIVE Effect(_, _)
Effect(n, cmds) ==
    IF cmds = <<>> THEN n
    ELSE LET c == Head(cmds)
             m == IF c.type = "response.create" THEN n + 1
                  ELSE IF c.type = "response.cancel" /\ n > 0 THEN n - 1
                  ELSE n
         IN  Effect(m, Tail(cmds))

\* openAiWs.send: ws drops the data when the socket is not OPEN
ModelSend(cmds) ==
    IF readyState = "OPEN"
    THEN /\ modelOut' = modelOut \o cmds
         /\ outstanding' = Effect(outstanding, cmds)
    ELSE UNCHANGED <<modelOut, outstanding>>

\* connection.send
TelephonySend(frames) ==
    telOut' = IF connOpen THEN telOut \o frames ELSE telOut

\* the commands trySendGreeting sends; `started` is streamStarted as the caller left it
trySendGreeting_NoFlag(started) ==
    IF started /\ readyState = "OPEN"
    THEN <<GreetingItem, ResponseCreate>>
    ELSE <<>>

trySendGreeting(started) ==
    IF ~greetingSent /\ started /\ readyState = "OPEN"
    THEN <<GreetingItem, ResponseCreate>>
    ELSE <<>>

\* the rows saveMessage inserts
saveMessage(conversationId, role, content) ==
    IF conversationId = NULL THEN <<>>
    ELSE IF content = <<>> \/ Trim(content) = <<>> THEN <<>>
    ELSE <<Message(conversationId, role, content)>>

(***************************************************************************)
(* The stored clinical data, the requests to the extraction endpoint and   *)
(* the second call, as they are when a session begins.                     *)
(***************************************************************************)
\* requests to /api/extract-clinical-data in the extraction specification
MaxRequests == 2

\* keys of clinical_data that the coverage of a conversation is read from
ClinicalKeys == {"medical_history", "current_medications", "allergies"}

\* keys of the objects handled: the clinical keys, and the index key that the
\* entries and the spread of a string or an array have
Keys == ClinicalKeys \cup {"0"}

\* a JSON object: NULL stands for a key that is absent
NoFields == [k \in Keys |-> NULL]

\* extractedData, the content of the completion: what kind of text it is, and the
\* entries of what it parses to
Output(kind, entries) == [kind |-> kind, entries |-> entries]

NoOutput == Output("none", NoFields)

\* a request: where its handler stands, the completion it got, the fields parsed
\* from it, the clinical_extractions rows it inserted, the clinical_data it read,
\* whether its read or its write of the record failed, and its reply
Request(pc, output, fields, rows, existing, failed, reply) ==
    [pc |-> pc, output |-> output, fields |-> fields, rows |-> rows,
     existing |-> existing, failed |-> failed, reply |-> reply]

NoRequest == Request("none", NoOutput, NoFields, {}, NoFields, FALSE, NULL)

\* the closure variables and legs of a session, as the connection handler leaves them
SessionRecord(conversationId) ==
    [readyState |-> "CONNECTING", connOpen |-> TRUE, streamSid |-> NULL,
     streamStarted |-> FALSE, greetingSent |-> FALSE, isIntroPhase |-> TRUE,
     wsConversationId |-> conversationId, modelOut |-> <<>>, telOut |-> <<>>]

InitOutside ==
    /\ settled = 0
    /\ clinicalData = NoFields
    /\ extractions = [r \in 1..MaxRequests |-> NoRequest]
    /\ peer = SessionRecord(NULL)
    /\ stored = <<>>
    /\ twiml = NULL

(***************************************************************************)
(* Initial state: the connection handler has run.                          *)
(***************************************************************************)
Init ==
    /\ readyState = "CONNECTING"
    /\ connOpen = TRUE
    /\ streamSid = NULL
    /\ streamStarted = FALSE
    /\ greetingSent = FALSE
    /\ wantGreeting = FALSE
    /\ queryId \in QueryIds
    /\ wsConversationId = (IF queryId # NULL /\ queryId # "null" THEN queryId ELSE NULL)
    /\ startCp = NULL
    /\ mediaIn = <<>>
    /\ deltaIn = <<>>
    /\ echoed = 0
    /\ fallbackTimer = FALSE
    /\ greetTimers = 0
    /\ modelOut = <<>>
    /\ telOut = <<>>
    /\ saved = <<>>
    /\ outstanding = 0
    /\ lastEvent = NoEvent
    /\ isIntroPhase = TRUE
    /\ endingCall = FALSE
    /\ pendingClose = FALSE
    /\ coverage = {}
    /\ heard = 0
    /\ extractionsPending = 0
    /\ summaryPending = FALSE
    /\ summaryRequests = 0
    /\ completedCalls = 0
    /\ convStatus = "active"
    /\ closeTimer = FALSE
    /\ closeCalls = 0
    /\ InitOutside

(***************************************************************************)
(* Model leg events.                                                       *)
(***************************************************************************)
ModelDelivers == readyState \in {"OPEN", "CLOSING"}

\* openAiWs.on('open')
Open_NoConfiguration ==
    /\ readyState = "CONNECTING"
    /\ readyState' = "OPEN"
    /\ fallbackTimer' = TRUE
    /\ UNCHANGED closingVars
    /\ UNCHANGED historyVars
    /\ lastEvent' = NoEvent
    /\ UNCHANGED outsideVars
    /\ UNCHANGED <<connOpen, streamSid, streamStarted, greetingSent, wantGreeting,
                   wsConversationId, greetTimers, modelOut, telOut, saved,
                   outstanding>>

Open ==
    /\ readyState = "CONNECTING"
    /\ readyState' = "OPEN"
    /\ modelOut' = Append(modelOut, SessionUpdate)
    /\ fallbackTimer' = TRUE
    /\ UNCHANGED closingVars
    /\ UNCHANGED historyVars
    /\ lastEvent' = NoEvent
    /\ UNCHANGED outsideVars
    /\ UNCHANGED <<connOpen, streamSid, streamStarted, greetingSent, wantGreeting,
                   wsConversationId, greetTimers, telOut, saved, outstanding>>

\* the 1.5 s timer armed by the open handler
FallbackTimer_NoRetry ==
    /\ fallbackTimer
    /\ fallbackTimer' = FALSE
    /\ lastEvent' = NoEvent
    /\ UNCHANGED outsideVars
    /\ UNCHANGED <<readyState, connOpen, streamSid, streamStarted, greetingSent,
                   wantGreeting, wsConversationId, greetTimers, modelOut, telOut,
                   saved, outstanding, closingVars, historyVars>>

FallbackTimer ==
    /\ fallbackTimer
    /\ fallbackTimer' = FALSE
    /\ LET cmds == trySendGreeting(streamStarted)
       IN  /\ ModelSend(cmds)
           /\ greetingSent' = (greetingSent \/ cmds # <<>>)
    /\ UNCHANGED closingVars
    /\ UNCHANGED historyVars
    /\ lastEvent' = NoEvent
    /\ UNCHANGED outsideVars
    /\ UNCHANGED <<readyState, connOpen, streamSid, streamStarted, wantGreeting,
                   wsConversationId, greetTimers, telOut, saved>>

\* openAiWs.on('message'): session.updated
SessionUpdated ==
    /\ ModelDelivers
    /\ greetTimers < MaxGreetTimers
    /\ wantGreeting' = TRUE
    /\ greetTimers' = greetTimers + 1
    /\ UNCHANGED closingVars
    /\ UNCHANGED historyVars
    /\ lastEvent' = NoEvent
    /\ UNCHANGED outsideVars
    /\ UNCHANGED <<readyState, connOpen, streamSid, streamStarted, greetingSent,
                   wsConversationId, fallbackTimer, modelOut, telOut, saved,
                   outstanding>>

\* a 100 ms timer armed by session.updated
GreetTimer ==
    /\ greetTimers > 0
    /\ greetTimers' = greetTimers - 1
    /\ LET cmds == trySendGreeting(streamStarted)
       IN  /\ ModelSend(cmds)
           /\ greetingSent' = (greetingSent \/ cmds # <<>>)
    /\ UNCHANGED closingVars
    /\ UNCHANGED historyVars
    /\ lastEvent' = NoEvent
    /\ UNCHANGED outsideVars
    /\ UNCHANGED <<readyState, connOpen, streamSid, streamStarted, wantGreeting,
                   wsConversationId, fallbackTimer, telOut, saved>>

\* openAiWs.on('message'): response.audio.delta
AudioDelta(delta) ==
    /\ ModelDelivers
    /\ deltaIn' = Append(deltaIn, Received(delta, connOpen))
    /\ TelephonySend(IF delta # ""
                     THEN <<MediaFrame(streamSid, Base64RoundTrip(delta))>>
                     ELSE <<>>)
    /\ UNCHANGED closingVars
    /\ UNCHANGED <<queryId, startCp, mediaIn, echoed>>
    /\ lastEvent' = NoEvent
    /\ UNCHANGED outsideVars
    /\ UNCHANGED <<readyState, connOpen, streamSid, streamStarted, greetingSent,
                   wantGreeting, wsConversationId, fallbackTimer, greetTimers,
                   modelOut, saved, outstanding>>

\* the commands of the single-question enforcement for normalized text `content`
EnforceCmds_ResubmitFirst(content) ==
    IF QmCount(content) > 1
    THEN <<SingleItem(FirstQ(content)), ResponseCreate, ResponseCancel>>
    ELSE <<>>

EnforceCmds_AnyQuestion(content) ==
    IF QmCount(content) > 0
    THEN <<ResponseCancel, SingleItem(FirstQ(content)), ResponseCreate>>
    ELSE <<>>

EnforceCmds(content) ==
    IF QmCount(content) > 1
    THEN <<ResponseCancel, SingleItem(FirstQ(content)), ResponseCreate>>
    ELSE <<>>

\* the text handed to saveMessage for normalized text `content`
LoggedText_AlwaysFirst(content) == FirstQ(content)

LoggedText(content) ==
    IF QmCount(content) > 1 THEN FirstQ(content) ELSE content

\* the conversation.item.created branch of openAiWs.on('message')
OnItemCreated(item) ==
    /\ LET conversationId == wsConversationId
           content == NormalizeContent(item.content)
       IN  IF item.type = "message" /\ item.role = "assistant" /\ conversationId # NULL
           THEN /\ ModelSend(EnforceCmds(content))
                /\ saved' = saved \o saveMessage(conversationId, "assistant",
                                                 LoggedText(content))
           ELSE UNCHANGED <<modelOut, outstanding, saved>>
    /\ UNCHANGED closingVars
    /\ UNCHANGED receivedVars
    /\ lastEvent' = Event("conversation.item.created", item)
    /\ UNCHANGED outsideVars
    /\ UNCHANGED <<readyState, connOpen, streamSid, streamStarted, greetingSent,
                   wantGreeting, wsConversationId, fallbackTimer, greetTimers, telOut>>

\* openAiWs.on('message'): conversation.item.created for an item of a model response
ItemCreated(item) ==
    /\ ModelDelivers
    /\ OnItemCreated(item)
    /\ UNCHANGED echoed

\* the conversation.item.create commands sent so far
Submitted == SelectSeq(modelOut, LAMBDA c : c.type = "conversation.item.create")

\* the item the model reports for a submitted command: one input_text part
EchoOf(cmd) == Item("message", "assistant", <<Part(<<>>, cmd.text)>>)

\* openAiWs.on('message'): conversation.item.created for the next submitted item
ItemEchoed ==
    /\ ModelDelivers
    /\ echoed < Len(Submitted)
    /\ echoed' = echoed + 1
    /\ OnItemCreated(EchoOf(Submitted[echoed + 1]))

\* the model service completes a response the Controller triggered
ResponseDone ==
    /\ ModelDelivers
    /\ outstanding > 0
    /\ outstanding' = outstanding - 1
    /\ UNCHANGED closingVars
    /\ UNCHANGED historyVars
    /\ lastEvent' = NoEvent
    /\ UNCHANGED outsideVars
    /\ UNCHANGED <<readyState, connOpen, streamSid, streamStarted, greetingSent,
                   wantGreeting, wsConversationId, fallbackTimer, greetTimers,
                   modelOut, telOut, saved>>

\* openAiWs.on('error') before the connection is established, then 'close'
ModelError ==
    /\ readyState = "CONNECTING"
    /\ readyState' = "CLOSED"
    /\ UNCHANGED closingVars
    /\ UNCHANGED historyVars
    /\ lastEvent' = NoEvent
    /\ UNCHANGED outsideVars
    /\ UNCHANGED <<connOpen, streamSid, streamStarted, greetingSent, wantGreeting,
                   wsConversationId, fallbackTimer, greetTimers, modelOut, telOut,
                   saved, outstanding>>

\* openAiWs.on('close'): the model leg drops, or finishes closing
ModelClose ==
    /\ readyState \in {"OPEN", "CLOSING"}
    /\ readyState' = "CLOSED"
    /\ UNCHANGED closingVars
    /\ UNCHANGED historyVars
    /\ lastEvent' = NoEvent
    /\ UNCHANGED outsideVars
    /\ UNCHANGED <<connOpen, streamSid, streamStarted, greetingSent, wantGreeting,
                   wsConversationId, fallbackTimer, greetTimers, modelOut, telOut,
                   saved, outstanding>>

(***************************************************************************)
(* Telephony leg events.                                                   *)
(***************************************************************************)
\* the frames of mediaIn that arrived while the model leg was not open
Dropped == SelectSeq(mediaIn, LAMBDA f : ~f.open)

\* the commands case 'media' sends for a frame carrying `payload`
MediaCmds_Replay(payload) ==
    IF readyState = "OPEN"
    THEN [i \in DOMAIN Dropped |-> AudioAppend(Dropped[i].payload)]
         \o <<AudioAppend(payload)>>
    ELSE <<>>

MediaCmds_AwaitPending(payload) ==
    IF readyState = "OPEN" /\ Len(saved) = settled /\ extractionsPending = 0
    THEN <<AudioAppend(payload)>>
    ELSE <<>>

MediaCmds(payload) ==
    IF readyState = "OPEN" THEN <<AudioAppend(payload)>> ELSE <<>>

\* connection.on('message'): case 'media'
Media(payload) ==
    /\ connOpen
    /\ mediaIn' = Append(mediaIn, Received(payload, readyState = "OPEN"))
    /\ ModelSend(MediaCmds(payload))
    /\ UNCHANGED closingVars
    /\ UNCHANGED <<queryId, startCp, deltaIn, echoed>>
    /\ lastEvent' = NoEvent
    /\ UNCHANGED outsideVars
    /\ UNCHANGED <<readyState, connOpen, streamSid, streamStarted, greetingSent,
                   wantGreeting, wsConversationId, fallbackTimer, greetTimers,
                   telOut, saved>>

\* wsConversationId after case 'start' with customParameters.conversation_id = cp
StartConversationId_QueryWins(cp) ==
    IF wsConversationId = NULL /\ cp # NULL /\ cp # "null" THEN cp
    ELSE wsConversationId

StartConversationId_KeepsNull(cp) ==
    IF cp # NULL THEN cp ELSE wsConversationId

StartConversationId(cp) ==
    IF cp # NULL /\ cp # "null" THEN cp ELSE wsConversationId

\* connection.on('message'): case 'start'
Start(sid, cp) ==
    /\ connOpen
    /\ ~streamStarted
    /\ streamSid' = sid
    /\ streamStarted' = TRUE
    /\ wsConversationId' = StartConversationId(cp)
    /\ startCp' = cp
    /\ LET cmds == trySendGreeting(TRUE)
       IN  /\ ModelSend(cmds)
           /\ greetingSent' = (greetingSent \/ cmds # <<>>)
    /\ UNCHANGED closingVars
    /\ UNCHANGED <<queryId, mediaIn, deltaIn, echoed>>
    /\ lastEvent' = NoEvent
    /\ UNCHANGED outsideVars
    /\ UNCHANGED <<readyState, connOpen, wantGreeting, fallbackTimer, greetTimers,
                   telOut, saved>>

\* connection.on('close')
ConnClose ==
    /\ connOpen
    /\ connOpen' = FALSE
    /\ readyState' = IF readyState = "OPEN" THEN "CLOSING" ELSE readyState
    /\ UNCHANGED closingVars
    /\ UNCHANGED historyVars
    /\ lastEvent' = NoEvent
    /\ UNCHANGED outsideVars
    /\ UNCHANGED <<streamSid, streamStarted, greetingSent, wantGreeting,
                   wsConversationId, fallbackTimer, greetTimers, modelOut, telOut,
                   saved, outstanding>>

Next ==
    \/ Open
    \/ FallbackTimer
    \/ SessionUpdated
    \/ GreetTimer
    \/ \E delta \in SessionPayloads : Len(deltaIn) < MaxDeltas /\ AudioDelta(delta)
    \/ \E item \in Items : Len(saved) < MaxSaved /\ ItemCreated(item)
    \/ ResponseDone
    \/ ModelError
    \/ ModelClose
    \/ \E payload \in SessionPayloads : Len(mediaIn) < MaxMedia /\ Media(payload)
    \/ \E sid \in Sids, cp \in CustomIds : Start(sid, cp)
    \/ ConnClose

Spec == Init /\ [][Next]_vars

(***************************************************************************)
(* Coverage Tracker and Closing Protocol (sections 4.3 and 4.4 of the      *)
(* specification), on top of the session above.  A caller text is a        *)
(* sequence of words; the intent patterns are substring cues.              *)
(***************************************************************************)
Categories == <<"medical_history", "current_medications", "allergies">>

CategorySet == {Categories[i] : i \in DOMAIN Categories}

Transcripts == {<<"hm">>, <<"bye">>, <<"no">>}

MatchesEndIntent(t) == \E i \in DOMAIN t : t[i] \in {"bye", "goodbye"}

MatchesConfirm(t) == \E i \in DOMAIN t : t[i] \in {"no", "nothing"}

\* an extraction result: a value, possibly empty, for some of the coverage keys
Fields(history, medications, allergies) ==
    [k \in CategorySet |->
        IF k = "medical_history" THEN history
        ELSE IF k = "current_medications" THEN medications
        ELSE allergies]

ExtractionResults ==
    { Fields("v", "v", "v"), Fields("v", NULL, ""), Fields(NULL, NULL, "") }

NotCovered(k) == k \notin coverage

missingCategories_None == <<>>

missingCategories == SelectSeq(Categories, NotCovered)

FollowUpText(missing) == <<"please", "tell", "me">> \o missing

SummaryText == <<"summary", "anything", "else">>

\* ClinicalDatabase.endConversation: the row's status after the update
endConversation_NoUpdate(conversationId, status) == status

endConversation(conversationId, status) ==
    IF conversationId # NULL THEN "completed" ELSE status

\* what the Closing Protocol does with caller text t
ClosingDecision_IgnorePending(t) ==
    IF MatchesEndIntent(t)
    THEN IF missingCategories # <<>> THEN "followup" ELSE "request"
    ELSE IF pendingClose /\ MatchesConfirm(t) /\ ~endingCall THEN "confirm"
    ELSE "none"

ClosingDecision(t) ==
    IF pendingClose
    THEN IF MatchesConfirm(t) /\ ~endingCall THEN "confirm" ELSE "none"
    ELSE IF MatchesEndIntent(t)
    THEN IF missingCategories # <<>> THEN "followup" ELSE "request"
    ELSE "none"

\* conversation.item.input_audio_transcription.completed
TranscriptCompleted(t) ==
    /\ ModelDelivers
    /\ heard < MaxTranscripts
    /\ heard' = heard + 1
    /\ isIntroPhase' = FALSE
    /\ LET conversationId == wsConversationId
           d == ClosingDecision(t)
           followUp == FollowUpText(missingCategories)
       IN  /\ extractionsPending' =
                 IF t # <<>> /\ conversationId # NULL
                 THEN extractionsPending + 1 ELSE extractionsPending
           /\ ModelSend(IF d = "followup"
                        THEN <<ResponseCancel, SingleItem(followUp), ResponseCreate>>
                        ELSE <<>>)
           /\ saved' = saved \o saveMessage(conversationId, "user", t)
                             \o (IF d = "followup"
                                 THEN saveMessage(conversationId, "assistant", followUp)
                                 ELSE <<>>)
           /\ pendingClose' = (pendingClose \/ d = "request")
           /\ summaryPending' = (summaryPending \/ d = "request")
           /\ summaryRequests' = summaryRequests + (IF d = "request" THEN 1 ELSE 0)
           /\ endingCall' = (endingCall \/ d = "confirm")
           /\ completedCalls' = completedCalls + (IF d = "confirm" THEN 1 ELSE 0)
           /\ convStatus' = IF d = "confirm"
                            THEN endConversation(conversationId, convStatus)
                            ELSE convStatus
           /\ closeTimer' = (closeTimer \/ d = "confirm")
    /\ lastEvent' = Event("transcript", Item("transcript", "user", <<T(t)>>))
    /\ UNCHANGED outsideVars
    /\ UNCHANGED historyVars
    /\ UNCHANGED <<readyState, connOpen, streamSid, streamStarted, greetingSent,
                   wantGreeting, wsConversationId, fallbackTimer, greetTimers,
                   telOut, coverage, closeCalls>>

\* an extraction result is merged into the accumulated clinical data
ExtractionMerged(fields) ==
    /\ extractionsPending > 0
    /\ extractionsPending' = extractionsPending - 1
    /\ coverage' = coverage \cup {k \in CategorySet : fields[k] \notin {NULL, ""}}
    /\ lastEvent' = NoEvent
    /\ UNCHANGED outsideVars
    /\ UNCHANGED historyVars
    /\ UNCHANGED <<readyState, connOpen, streamSid, streamStarted, greetingSent,
                   wantGreeting, wsConversationId, fallbackTimer, greetTimers,
                   modelOut, telOut, saved, outstanding, isIntroPhase, endingCall,
                   pendingClose, heard, summaryPending, summaryRequests,
                   completedCalls, convStatus, closeTimer, closeCalls>>

\* the requested closing summary comes back: it is spoken and logged
SummaryReady ==
    /\ summaryPending
    /\ summaryPending' = FALSE
    /\ ModelSend(<<SingleItem(SummaryText), ResponseCreate>>)
    /\ saved' = saved \o saveMessage(wsConversationId, "assistant", SummaryText)
    /\ lastEvent' = NoEvent
    /\ UNCHANGED outsideVars
    /\ UNCHANGED historyVars
    /\ UNCHANGED <<readyState, connOpen, streamSid, streamStarted, greetingSent,
                   wantGreeting, wsConversationId, fallbackTimer, greetTimers,
                   telOut, isIntroPhase, endingCall, pendingClose, coverage, heard,
                   extractionsPending, summaryRequests, completedCalls, convStatus,
                   closeTimer, closeCalls>>

\* the grace delay ends: both legs are closed
CloseTimer ==
    /\ closeTimer
    /\ closeTimer' = FALSE
    /\ closeCalls' = closeCalls + 1
    /\ connOpen' = FALSE
    /\ readyState' = IF readyState = "OPEN" THEN "CLOSING" ELSE readyState
    /\ lastEvent' = NoEvent
    /\ UNCHANGED outsideVars
    /\ UNCHANGED historyVars
    /\ UNCHANGED <<streamSid, streamStarted, greetingSent, wantGreeting,
                   wsConversationId, fallbackTimer, greetTimers, modelOut, telOut,
                   saved, outstanding, isIntroPhase, endingCall, pendingClose,
                   coverage, heard, extractionsPending, summaryPending,
                   summaryRequests, completedCalls, convStatus>>

NextClosing ==
    \/ Open
    \/ \E sid \in Sids, cp \in CustomIds : Start(sid, cp)
    \/ ConnClose
    \/ ModelClose
    \/ \E t \in Transcripts : TranscriptCompleted(t)
    \/ \E fields \in ExtractionResults : ExtractionMerged(fields)
    \/ SummaryReady
    \/ CloseTimer

SpecClosing == Init /\ [][NextClosing]_vars

\* the phase of section 4.1, read off the session's state
Phase ==
    IF ~connOpen \/ readyState \in {"CLOSING", "CLOSED"} THEN "CLOSED"
    ELSE IF pendingClose THEN "CLOSE_REQUESTED"
    ELSE IF ~isIntroPhase THEN "INTAKE_ACTIVE"
    ELSE IF greetingSent THEN "GREETED"
    ELSE IF streamStarted THEN "STREAM_STARTING"
    ELSE "INIT"

(***************************************************************************)
(* The Turn Enforcer on bounded texts: a connected, greeted session        *)
(* receives one conversation.item.created event.                           *)
(***************************************************************************)
EnforcerItems ==
    {Item("message", "assistant", <<T(s)>>) : s \in Str(MaxLen)}
    \cup {Item("message", "assistant", <<Part(s, t), T(u)>>) : s, t, u \in Str(1)}
    \cup {Item("message", "assistant", <<T(<<"a", "\t", " ">>), T(<<"\n", "a">>)>>),
          Item("message", "assistant", <<T(<<"\t">>), Part(<<>>, <<"\n">>)>>)}

InitEnforcer ==
    /\ readyState = "OPEN"
    /\ connOpen = TRUE
    /\ streamSid = "MZ1"
    /\ streamStarted = TRUE
    /\ greetingSent = TRUE
    /\ wantGreeting = FALSE
    /\ queryId = NULL
    /\ startCp \in {NULL, "c1"}
    /\ wsConversationId = startCp
    /\ mediaIn = <<>>
    /\ deltaIn = <<>>
    /\ echoed = 0
    /\ fallbackTimer = FALSE
    /\ greetTimers = 0
    /\ modelOut = <<SessionUpdate, GreetingItem, ResponseCreate>>
    /\ telOut = <<>>
    /\ saved = <<>>
    /\ outstanding = 1
    /\ lastEvent = NoEvent
    /\ isIntroPhase = TRUE
    /\ endingCall = FALSE
    /\ pendingClose = FALSE
    /\ coverage = {}
    /\ heard = 0
    /\ extractionsPending = 0
    /\ summaryPending = FALSE
    /\ summaryRequests = 0
    /\ completedCalls = 0
    /\ convStatus = "active"
    /\ closeTimer = FALSE
    /\ closeCalls = 0
    /\ InitOutside

NextEnforcer ==
    \/ \E item \in EnforcerItems : Len(saved) < MaxSaved /\ ItemCreated(item)
    \/ ItemEchoed

SpecEnforcer == InitEnforcer /\ [][NextEnforcer]_vars

(***************************************************************************)
(* The second server module of src/server.js (from line 665): the same     *)
(* route with the greeting triggered on open, a voice switch on the first  *)
(* caller transcript, and the log written for response.done and            *)
(* conversation.item.created alike.  It keeps streamSid and isIntroPhase   *)
(* only, and reads the conversation id from the query string as received.  *)
(***************************************************************************)
\* log entries of one session of the second module
MaxLogged == 2
\* caller transcripts of one session of the second module
MaxTranscripts2 == 2

INTRO_VOICE_M2 == "ballad"

QUESTIONS_VOICE_M2 == "echo"

SessionUpdate2 == Cmd("session.update", <<"SYSTEM_MESSAGE">>, "", INTRO_VOICE_M2)

\* response.create carrying the scripted opening line as its instructions
InitialGreeting == Cmd("response.create", GreetingText, "", "")

VoiceUpdate == Cmd("session.update", <<>>, "", QUESTIONS_VOICE_M2)

AiPlaceholder == <<"A", "I", " ", "r", "e", "s", "p", "o", "n", "s", "e">>

\* item.content?.[0]?.transcript || item.content?.[0]?.text || fallback
FirstPartText(content, fallback) ==
    IF content = <<>> THEN fallback
    ELSE IF PartText(content[1]) # <<>> THEN PartText(content[1])
    ELSE fallback

\* caller transcripts of the second module: empty, or some words
Transcripts2 == {<<>>, <<"hm">>}

\* the variables of the first module that the second does not have
module1Vars == <<streamStarted, greetingSent, wantGreeting, wsConversationId,
                 fallbackTimer, greetTimers>>

\* the closing variables the second module leaves alone
closingRest == <<endingCall, pendingClose, coverage, summaryPending,
                 summaryRequests, completedCalls, convStatus, closeTimer, closeCalls>>

Init2 ==
    /\ readyState = "CONNECTING"
    /\ connOpen = TRUE
    /\ streamSid = NULL
    /\ isIntroPhase = TRUE
    /\ queryId \in QueryIds
    /\ startCp = NULL
    /\ modelOut = <<>>
    /\ telOut = <<>>
    /\ saved = <<>>
    /\ outstanding = 0
    /\ lastEvent = NoEvent
    /\ mediaIn = <<>>
    /\ deltaIn = <<>>
    /\ echoed = 0
    /\ heard = 0
    /\ extractionsPending = 0
    /\ streamStarted = FALSE
    /\ greetingSent = FALSE
    /\ wantGreeting = FALSE
    /\ wsConversationId = NULL
    /\ fallbackTimer = FALSE
    /\ greetTimers = 0
    /\ endingCall = FALSE
    /\ pendingClose = FALSE
    /\ coverage = {}
    /\ summaryPending = FALSE
    /\ summaryRequests = 0
    /\ completedCalls = 0
    /\ convStatus = "active"
    /\ closeTimer = FALSE
    /\ closeCalls = 0
    /\ InitOutside

\* openAiWs.on('open')
Open2 ==
    /\ readyState = "CONNECTING"
    /\ readyState' = "OPEN"
    /\ modelOut' = modelOut \o <<SessionUpdate2, InitialGreeting>>
    /\ outstanding' = Effect(outstanding, <<SessionUpdate2, InitialGreeting>>)
    /\ lastEvent' = NoEvent
    /\ UNCHANGED outsideVars
    /\ UNCHANGED <<connOpen, streamSid, telOut, saved, isIntroPhase, heard,
                   extractionsPending>>
    /\ UNCHANGED <<module1Vars, closingRest, historyVars>>

\* openAiWs.on('message'): response.audio.delta
AudioDelta2(delta) == AudioDelta(delta)

\* the voice change the transcript handler sends: only while in the intro phase
VoiceSwitchCmds_Always == <<VoiceUpdate>>

VoiceSwitchCmds == IF isIntroPhase THEN <<VoiceUpdate>> ELSE <<>>

\* openAiWs.on('message'): conversation.item.input_audio_transcription.completed
TranscriptCompleted2(t) ==
    /\ ModelDelivers
    /\ heard' = heard + 1
    /\ isIntroPhase' = FALSE
    /\ ModelSend(VoiceSwitchCmds)
    /\ LET conversationId == queryId
       IN  IF t # <<>> /\ conversationId # NULL
           THEN /\ saved' = Append(saved, Message(conversationId, "user", t))
                /\ extractionsPending' = extractionsPending + 1
           ELSE UNCHANGED <<saved, extractionsPending>>
    /\ lastEvent' = Event("transcript", Item("transcript", "user", <<T(t)>>))
    /\ UNCHANGED outsideVars
    /\ UNCHANGED <<readyState, connOpen, streamSid, telOut>>
    /\ UNCHANGED <<module1Vars, closingRest, historyVars>>

\* openAiWs.on('message'): response.done, whose first output item is `item`
ResponseDone2(item) ==
    /\ ModelDelivers
    /\ outstanding' = IF outstanding > 0 THEN outstanding - 1 ELSE 0
    /\ LET conversationId == queryId
           aiContent == FirstPartText(item.content, AiPlaceholder)
       IN  saved' = IF conversationId # NULL
                    THEN Append(saved, Message(conversationId, "assistant", aiContent))
                    ELSE saved
    /\ lastEvent' = Event("response.done", item)
    /\ UNCHANGED outsideVars
    /\ UNCHANGED <<readyState, connOpen, streamSid, modelOut, telOut, isIntroPhase,
                   heard, extractionsPending>>
    /\ UNCHANGED <<module1Vars, closingRest, historyVars>>

\* openAiWs.on('message'): conversation.item.created
ItemCreated2(item) ==
    /\ ModelDelivers
    /\ LET conversationId == queryId
           content == FirstPartText(item.content, Placeholder)
       IN  saved' = IF item.type = "message" /\ item.role = "assistant"
                        /\ conversationId # NULL
                    THEN Append(saved, Message(conversationId, "assistant", content))
                    ELSE saved
    /\ lastEvent' = Event("conversation.item.created", item)
    /\ UNCHANGED outsideVars
    /\ UNCHANGED <<readyState, connOpen, streamSid, modelOut, telOut, outstanding,
                   isIntroPhase, heard, extractionsPending>>
    /\ UNCHANGED <<module1Vars, closingRest, historyVars>>

\* connection.on('message'): case 'media'
Media2(payload) == Media(payload)

\* connection.on('message'): case 'start'
Start2(sid) ==
    /\ connOpen
    /\ streamSid = NULL
    /\ streamSid' = sid
    /\ lastEvent' = NoEvent
    /\ UNCHANGED outsideVars
    /\ UNCHANGED <<readyState, connOpen, modelOut, telOut, saved, outstanding,
                   isIntroPhase, heard, extractionsPending>>
    /\ UNCHANGED <<module1Vars, closingRest, historyVars>>

\* connection.on('close')
ConnClose2 == ConnClose

\* openAiWs.on('close')
ModelClose2 == ModelClose

\* openAiWs.on('error') before the connection is established
ModelError2 == ModelError

Next2 ==
    \/ Open2
    \/ \E delta \in SessionPayloads : Len(deltaIn) < MaxDeltas /\ AudioDelta2(delta)
    \/ \E t \in Transcripts2 : heard < MaxTranscripts2 /\ TranscriptCompleted2(t)
    \/ \E item \in Items : Len(saved) < MaxLogged /\ ResponseDone2(item)
    \/ \E item \in Items : Len(saved) < MaxLogged /\ ItemCreated2(item)
    \/ \E payload \in SessionPayloads : Len(mediaIn) < MaxMedia /\ Media2(payload)
    \/ \E sid \in Sids : Start2(sid)
    \/ ConnClose2
    \/ ModelClose2
    \/ ModelError2

Spec2 == Init2 /\ [][Next2]_vars

(***************************************************************************)
(* Collaborator calls settle.  A call is dispatched by the handler that    *)
(* appends to `saved` or counts an extraction, without being awaited; it   *)
(* settles in a later turn of the event loop, with a result, an error      *)
(* result, or an exception.  An exception that nothing catches is an       *)
(* unhandled rejection, which ends the process and with it both legs.      *)
(***************************************************************************)
Outcomes == {"ok", "error", "throw"}

\* saveMessage: the error of the insert's result is tested and logged, and the
\* try block catches what the insert throws
Caught_NoTry(outcome) == outcome = "error"

Caught(outcome) == outcome \in {"error", "throw"}

\* fetch(...).catch(...): a rejection is caught and logged; an error status
\* resolves the promise, whose value nothing reads
Caught2(outcome) == outcome \in {"error", "throw"}

Settled(outcome) == Event(IF outcome = "ok" THEN "call.done" ELSE "call.failed", NoItem)

\* what the settling of a call does to the legs
Settle(handled) ==
    IF handled
    THEN UNCHANGED <<readyState, connOpen>>
    ELSE readyState' = "CLOSED" /\ connOpen' = FALSE

\* the insert of the oldest unsettled saveMessage call settles
SaveSettles(outcome) ==
    /\ settled < Len(saved)
    /\ settled' = settled + 1
    /\ Settle(outcome = "ok" \/ Caught(outcome))
    /\ lastEvent' = Settled(outcome)
    /\ UNCHANGED closingVars
    /\ UNCHANGED historyVars
    /\ UNCHANGED <<clinicalData, extractions, peer, stored, twiml>>
    /\ UNCHANGED <<streamSid, streamStarted, greetingSent, wantGreeting,
                   wsConversationId, fallbackTimer, greetTimers, modelOut, telOut,
                   saved, outstanding>>

NextCalls ==
    \/ Open
    \/ \E item \in Items : Len(saved) < MaxLogged /\ ItemCreated(item)
    \/ \E outcome \in Outcomes : SaveSettles(outcome)
    \/ \E payload \in SessionPayloads : Len(mediaIn) < MaxMedia /\ Media(payload)
    \/ \E delta \in SessionPayloads : Len(deltaIn) < MaxDeltas /\ AudioDelta(delta)
    \/ \E sid \in Sids : Start(sid, NULL)
    \/ ConnClose
    \/ ModelClose

SpecCalls == Init /\ [][NextCalls]_vars

\* the POST to /api/messages of the oldest unsettled append settles
PostSettles2(outcome) ==
    /\ settled < Len(saved)
    /\ settled' = settled + 1
    /\ Settle(outcome = "ok" \/ Caught2(outcome))
    /\ lastEvent' = Settled(outcome)
    /\ UNCHANGED <<clinicalData, extractions, peer, stored, twiml>>
    /\ UNCHANGED <<streamSid, modelOut, telOut, saved, outstanding, isIntroPhase,
                   heard, extractionsPending>>
    /\ UNCHANGED <<module1Vars, closingRest, historyVars>>

\* the POST to /api/extract-clinical-data of a transcript settles
ExtractSettles2(outcome) ==
    /\ extractionsPending > 0
    /\ extractionsPending' = extractionsPending - 1
    /\ Settle(outcome = "ok" \/ Caught2(outcome))
    /\ lastEvent' = Settled(outcome)
    /\ UNCHANGED outsideVars
    /\ UNCHANGED <<streamSid, modelOut, telOut, saved, outstanding, isIntroPhase,
                   heard>>
    /\ UNCHANGED <<module1Vars, closingRest, historyVars>>

NextCalls2 ==
    \/ Open2
    \/ \E t \in Transcripts2 : heard < MaxTranscripts2 /\ TranscriptCompleted2(t)
    \/ \E outcome \in Outcomes : PostSettles2(outcome)
    \/ \E outcome \in Outcomes : ExtractSettles2(outcome)
    \/ \E payload \in SessionPayloads : Len(mediaIn) < MaxMedia /\ Media2(payload)
    \/ \E delta \in SessionPayloads : Len(deltaIn) < MaxDeltas /\ AudioDelta2(delta)
    \/ \E sid \in Sids : Start2(sid)
    \/ ConnClose2
    \/ ModelClose2

SpecCalls2 == Init2 /\ [][NextCalls2]_vars

(***************************************************************************)
(* The message log behind POST /api/messages.  The second module's         *)
(* handlers start one request per append and wait for none; the endpoint   *)
(* stamps a message with the time at which its request is handled.  The    *)
(* requests are independent of one another, so they reach the handler in   *)
(* any order.                                                              *)
(***************************************************************************)
\* the appends whose request has been handled
Posted == {stored[n] : n \in DOMAIN stored}

\* POST /api/messages: the request of the i-th append is handled, which stamps it
\* with the current time and inserts it
MessagePosted(i) ==
    /\ i \in DOMAIN saved
    /\ i \notin Posted
    /\ stored' = Append(stored, i)
    /\ lastEvent' = NoEvent
    /\ UNCHANGED <<settled, clinicalData, extractions, peer, twiml>>
    /\ UNCHANGED <<readyState, connOpen, streamSid, modelOut, telOut, saved,
                   outstanding, isIntroPhase, heard, extractionsPending>>
    /\ UNCHANGED <<module1Vars, closingRest, historyVars>>

NextLog2 ==
    \/ Open2
    \/ \E t \in Transcripts2 : heard < MaxTranscripts2 /\ TranscriptCompleted2(t)
    \/ \E item \in Items : Len(saved) < MaxLogged /\ ResponseDone2(item)
    \/ \E i \in 1..(MaxLogged + MaxTranscripts2) : MessagePosted(i)
    \/ ConnClose2
    \/ ModelClose2

SpecLog2 == Init2 /\ [][NextLog2]_vars

(***************************************************************************)
(* The call from its webhook on.  /webhook/voice creates the conversation  *)
(* record and answers with TwiML whose stream carries the record's id as   *)
(* the parameter conversation_id; the stream URL has no query.  The        *)
(* telephony service then opens the stream and sends that parameter in     *)
(* its start frame.                                                        *)
(***************************************************************************)
\* `${conversationId}` in the TwiML template
Interpolate(conversationId) ==
    IF conversationId = NULL THEN "null" ELSE conversationId

\* /webhook/voice: the insert of the record succeeds, or fails with an error
\* result or an exception; the TwiML is sent either way
VoiceWebhook(created) ==
    /\ twiml = NULL
    /\ twiml' = Interpolate(IF created THEN "c1" ELSE NULL)
    /\ lastEvent' = NoEvent
    /\ UNCHANGED <<settled, clinicalData, extractions, peer, stored>>
    /\ UNCHANGED closingVars
    /\ UNCHANGED historyVars
    /\ UNCHANGED <<readyState, connOpen, streamSid, streamStarted, greetingSent,
                   wantGreeting, wsConversationId, fallbackTimer, greetTimers,
                   modelOut, telOut, saved, outstanding>>

InitWebhook == Init /\ queryId = NULL

NextWebhook ==
    \/ \E created \in BOOLEAN : VoiceWebhook(created)
    \/ twiml # NULL /\ Open
    \/ twiml # NULL /\ \E sid \in Sids : Start(sid, twiml)
    \/ \E item \in Items : twiml # NULL /\ Len(saved) < MaxSaved /\ ItemCreated(item)
    \/ \E payload \in SessionPayloads :
          twiml # NULL /\ Len(mediaIn) < MaxMedia /\ Media(payload)
    \/ \E delta \in SessionPayloads :
          twiml # NULL /\ Len(deltaIn) < MaxDeltas /\ AudioDelta(delta)
    \/ twiml # NULL /\ ConnClose
    \/ twiml # NULL /\ ModelClose

SpecWebhook == InitWebhook /\ [][NextWebhook]_vars

(***************************************************************************)
(* The audio relay on its own: both legs come and go while several frames  *)
(* arrive in each direction, with canonical, unpadded and empty payloads.  *)
(***************************************************************************)
\* frames received in each direction in the relay specification
MaxFrames == 2

NextRelay ==
    \/ Open
    \/ \E payload \in Payloads : Len(mediaIn) < MaxFrames /\ Media(payload)
    \/ \E delta \in Deltas : Len(deltaIn) < MaxFrames /\ AudioDelta(delta)
    \/ \E sid \in Sids : Start(sid, NULL)
    \/ ConnClose
    \/ ModelClose

SpecRelay == Init /\ [][NextRelay]_vars

(***************************************************************************)
(* The greeting on its own: the handlers that call trySendGreeting and the *)
(* events they wait for.  Timers armed with setTimeout do fire; nothing    *)
(* obliges the model to send session.updated or the caller to start.       *)
(***************************************************************************)
NextGreeting ==
    \/ Open
    \/ FallbackTimer
    \/ SessionUpdated
    \/ GreetTimer
    \/ \E sid \in Sids, cp \in CustomIds : Start(sid, cp)
    \/ ConnClose
    \/ ModelClose
    \/ ModelError

SpecGreeting ==
    /\ Init
    /\ [][NextGreeting]_vars
    /\ WF_vars(FallbackTimer)
    /\ WF_vars(GreetTimer)

(***************************************************************************)
(* The telephony handler on arbitrary frames: text that is not JSON,       *)
(* frames with missing or empty objects, and events other than 'start'     *)
(* and 'media'.                                                            *)
(***************************************************************************)
\* a property that is absent from a frame reads as undefined
UNDEFINED == "<undefined>"

\* data.start and data.media: the object may be absent, and so may its fields
StartOf(sid, cp) == [present |-> TRUE, streamSid |-> sid, conversation_id |-> cp]

NoStart == [present |-> FALSE, streamSid |-> UNDEFINED, conversation_id |-> NULL]

MediaOf(payload) == [present |-> TRUE, payload |-> payload]

NoMedia == [present |-> FALSE, payload |-> UNDEFINED]

\* a message on the telephony leg: whether it parses, and data.event, data.start
\* and data.media of what it parses to
Frame(json, event, start, media) ==
    [json |-> json, event |-> event, start |-> start, media |-> media]

Frames ==
    { Frame(FALSE, UNDEFINED, NoStart, NoMedia),
      Frame(TRUE, "start", NoStart, NoMedia),
      Frame(TRUE, "start", StartOf(UNDEFINED, NULL), NoMedia),
      Frame(TRUE, "start", StartOf("MZ1", "c1"), NoMedia),
      Frame(TRUE, "media", NoStart, NoMedia),
      Frame(TRUE, "media", NoStart, MediaOf(UNDEFINED)),
      Frame(TRUE, "media", NoStart, MediaOf("QQ==")),
      Frame(TRUE, "stop", NoStart, NoMedia),
      Frame(TRUE, "mark", StartOf("MZ2", "c1"), MediaOf("QQ==")),
      Frame(TRUE, UNDEFINED, NoStart, NoMedia) }

\* the branch of the handler that a frame takes: the catch clause when JSON.parse
\* throws, else the case of switch (data.event)
Branch_DefaultStarts(frame) ==
    IF ~frame.json THEN "catch"
    ELSE IF frame.event = "media" THEN "media"
    ELSE "start"

Branch(frame) ==
    IF ~frame.json THEN "catch"
    ELSE IF frame.event = "media" THEN "media"
    ELSE IF frame.event = "start" THEN "start"
    ELSE "default"

\* connection.on('message') for any frame.  Reading data.start.streamSid or
\* data.media.payload of an absent object throws before anything is assigned or
\* sent, and the catch clause logs it.
Telephony(frame) ==
    /\ connOpen
    /\ LET started == Branch(frame) = "start" /\ frame.start.present
           relayed == Branch(frame) = "media" /\ frame.media.present
           cmds == IF started THEN trySendGreeting(TRUE)
                   ELSE IF relayed THEN MediaCmds(frame.media.payload)
                   ELSE <<>>
       IN  /\ streamSid' = IF started THEN frame.start.streamSid ELSE streamSid
           /\ streamStarted' = (streamStarted \/ started)
           /\ wsConversationId' = IF started
                                  THEN StartConversationId(frame.start.conversation_id)
                                  ELSE wsConversationId
           /\ startCp' = IF started THEN frame.start.conversation_id ELSE startCp
           /\ greetingSent' = (greetingSent \/ (started /\ cmds # <<>>))
           /\ mediaIn' = IF relayed
                         THEN Append(mediaIn, Received(frame.media.payload,
                                                       readyState = "OPEN"))
                         ELSE mediaIn
           /\ ModelSend(cmds)
    /\ lastEvent' = Event("telephony", frame)
    /\ UNCHANGED closingVars
    /\ UNCHANGED <<queryId, deltaIn, echoed>>
    /\ UNCHANGED outsideVars
    /\ UNCHANGED <<readyState, connOpen, wantGreeting, fallbackTimer, greetTimers,
                   telOut, saved>>

NextFrames ==
    \/ Open
    \/ \E frame \in Frames : Len(mediaIn) < MaxFrames /\ Telephony(frame)
    \/ ConnClose
    \/ ModelClose

SpecFrames == Init /\ [][NextFrames]_vars

(***************************************************************************)
(* Two calls at once.  The route handler runs once per connection, and     *)
(* the session variables and both sockets are declared inside it, so the   *)
(* handlers a connection registers close over that connection's own        *)
(* variables.  The first session is the one modelled above; the second     *)
(* is held in the record `peer` and driven by the same handlers.           *)
(***************************************************************************)
\* the session whose variables the handlers registered by connection s read and write
Closure_ModuleLevel(s) == 1

Closure(s) == s

\* the first session's variables as a record
Own ==
    [readyState |-> readyState, connOpen |-> connOpen, streamSid |-> streamSid,
     streamStarted |-> streamStarted, greetingSent |-> greetingSent,
     isIntroPhase |-> isIntroPhase, wsConversationId |-> wsConversationId,
     modelOut |-> modelOut, telOut |-> telOut]

ownVars == <<readyState, connOpen, streamSid, streamStarted, greetingSent,
             isIntroPhase, wsConversationId, modelOut, telOut>>

\* the variables a handler of the second connection sees, and its writing them
PeerReads == IF Closure(2) = 2 THEN peer ELSE Own

PeerWrites(q) ==
    IF Closure(2) = 2
    THEN peer' = q /\ UNCHANGED ownVars
    ELSE /\ peer' = peer
         /\ readyState' = q.readyState
         /\ connOpen' = q.connOpen
         /\ streamSid' = q.streamSid
         /\ streamStarted' = q.streamStarted
         /\ greetingSent' = q.greetingSent
         /\ isIntroPhase' = q.isIntroPhase
         /\ wsConversationId' = q.wsConversationId
         /\ modelOut' = q.modelOut
         /\ telOut' = q.telOut

\* what a handler of the second connection leaves alone
PeerRest ==
    /\ lastEvent' = Event("peer", NoItem)
    /\ UNCHANGED <<wantGreeting, fallbackTimer, greetTimers, saved, outstanding>>
    /\ UNCHANGED <<endingCall, pendingClose, coverage, heard, extractionsPending,
                   summaryPending, summaryRequests, completedCalls, convStatus,
                   closeTimer, closeCalls>>
    /\ UNCHANGED historyVars
    /\ UNCHANGED <<settled, clinicalData, extractions, stored, twiml>>

\* openAiWs.on('open') of the second connection
PeerOpen ==
    /\ PeerReads.readyState = "CONNECTING"
    /\ PeerWrites([PeerReads EXCEPT !.readyState = "OPEN",
                                    !.modelOut = Append(@, SessionUpdate)])
    /\ PeerRest

\* connection.on('message'): case 'start' of the second connection
PeerStart(sid, cp) ==
    /\ PeerReads.connOpen
    /\ ~PeerReads.streamStarted
    /\ LET q == PeerReads
           greets == ~q.greetingSent /\ q.readyState = "OPEN"
       IN  PeerWrites([q EXCEPT
               !.streamSid = sid,
               !.streamStarted = TRUE,
               !.wsConversationId = IF cp # NULL /\ cp # "null" THEN cp ELSE @,
               !.greetingSent = @ \/ greets,
               !.modelOut = IF greets THEN @ \o <<GreetingItem, ResponseCreate>>
                            ELSE @])
    /\ PeerRest

\* connection.on('message'): case 'media' of the second connection
PeerMedia(payload) ==
    /\ PeerReads.connOpen
    /\ PeerReads.readyState = "OPEN"
    /\ PeerWrites([PeerReads EXCEPT !.modelOut = Append(@, AudioAppend(payload))])
    /\ PeerRest

\* openAiWs.on('message'): response.audio.delta of the second connection
PeerAudioDelta(delta) ==
    /\ PeerReads.readyState \in {"OPEN", "CLOSING"}
    /\ PeerReads.connOpen
    /\ PeerWrites([PeerReads EXCEPT
           !.telOut = Append(@, MediaFrame(PeerReads.streamSid,
                                           Base64RoundTrip(delta)))])
    /\ PeerRest

\* connection.on('close') of the second connection
PeerConnClose ==
    /\ PeerReads.connOpen
    /\ PeerWrites([PeerReads EXCEPT
           !.connOpen = FALSE,
           !.readyState = IF @ = "OPEN" THEN "CLOSING" ELSE @])
    /\ PeerRest

\* openAiWs.on('close') of the second connection
PeerModelClose ==
    /\ PeerReads.readyState \in {"OPEN", "CLOSING"}
    /\ PeerWrites([PeerReads EXCEPT !.readyState = "CLOSED"])
    /\ PeerRest

PeerAppends(q) ==
    Len(SelectSeq(q.modelOut, LAMBDA c : c.type = "input_audio_buffer.append"))

NextTwo ==
    \/ Open
    \/ \E payload \in SessionPayloads : Len(mediaIn) < MaxMedia /\ Media(payload)
    \/ \E delta \in SessionPayloads : Len(deltaIn) < MaxDeltas /\ AudioDelta(delta)
    \/ \E sid \in Sids : Start(sid, "c1")
    \/ ConnClose
    \/ ModelClose
    \/ PeerOpen
    \/ \E sid \in {"MZ2"}, cp \in {"c2"} : PeerStart(sid, cp)
    \/ \E payload \in {"Qg=="} : PeerAppends(peer) < MaxMedia /\ PeerMedia(payload)
    \/ \E delta \in {"Qg=="} : Len(peer.telOut) < MaxDeltas /\ PeerAudioDelta(delta)
    \/ PeerConnClose
    \/ PeerModelClose

SpecTwo == Init /\ [][NextTwo]_vars

(***************************************************************************)
(* POST /api/extract-clinical-data for one conversation.  Each request     *)
(* parses the extracted fields, reads clinical_data, and writes back the   *)
(* record it read with its own fields spread over it; the handler awaits   *)
(* between these steps, so requests interleave.                            *)
(***************************************************************************)
JsonObject(history, medications, allergies) ==
    [k \in Keys |->
        IF k = "medical_history" THEN history
        ELSE IF k = "current_medications" THEN medications
        ELSE IF k = "allergies" THEN allergies
        ELSE NULL]

\* clinicalFields: the parsed extraction results of the extraction specification
ClinicalFields ==
    { JsonObject("v", NULL, NULL),
      JsonObject(NULL, "w", NULL),
      JsonObject("", NULL, "x") }

\* Object.entries and the spread of a JSON string or array: its elements by index
Indexed(v) == [k \in Keys |-> IF k = "0" THEN v ELSE NULL]

\* completions: a JSON object, prose that is not JSON, the JSON literal null,
\* and a JSON string
ExtractedData ==
    {Output("object", f) : f \in ClinicalFields}
    \cup { Output("prose", NoFields),
           Output("null", NoFields),
           Output("string", Indexed("n")) }

\* JSON.parse throws on text that is not JSON, and Object.entries throws on null;
\* both land in the inner catch
Thrown(output) == output.kind \in {"prose", "null"}

\* if (fieldValue && fieldValue.trim()): the rows inserted for clinicalFields
InsertedRows(clinicalFields) ==
    { [field_name |-> k, field_value |-> clinicalFields[k]] :
          k \in {f \in Keys : clinicalFields[f] \notin {NULL, "", " "}} }

\* { ...existing, ...clinicalFields }
SpreadMerge(existing, clinicalFields) ==
    [k \in Keys |->
        IF clinicalFields[k] # NULL THEN clinicalFields[k] ELSE existing[k]]

\* the request arrives and the completion's content is parsed; what parses has its
\* non-empty fields inserted as rows, what throws is logged and answered with success
ExtractParsed(r, output) ==
    /\ extractions[r].pc = "none"
    /\ extractions' = [extractions EXCEPT ![r] =
          IF Thrown(output)
          THEN Request("done", output, NoFields, {}, NoFields, FALSE, "success")
          ELSE Request("parsed", output, output.entries,
                       InsertedRows(output.entries), NoFields, FALSE, NULL)]
    /\ UNCHANGED <<callVars, settled, clinicalData, peer, stored, twiml>>

\* the completion request fails or carries no choices: the outer catch answers 500
ExtractFailed(r) ==
    /\ extractions[r].pc = "none"
    /\ extractions' = [extractions EXCEPT ![r] =
          Request("done", NoOutput, NoFields, {}, NoFields, FALSE, "error")]
    /\ UNCHANGED <<callVars, settled, clinicalData, peer, stored, twiml>>

\* select('clinical_data'): on an error existingConversation is null and {} is used
ExtractFetched(r, ok) ==
    /\ extractions[r].pc = "parsed"
    /\ extractions' = [extractions EXCEPT ![r] =
          Request("fetched", @.output, @.fields, @.rows,
                  IF ok THEN clinicalData ELSE NoFields, ~ok, NULL)]
    /\ UNCHANGED <<callVars, settled, clinicalData, peer, stored, twiml>>

\* update({ clinical_data: updatedClinicalData }): on an error the record is left as
\* it is; the reply is success either way
ExtractUpdated(r, ok) ==
    /\ extractions[r].pc = "fetched"
    /\ extractions' = [extractions EXCEPT ![r] =
          Request("done", @.output, @.fields, @.rows, @.existing,
                  @.failed \/ ~ok, "success")]
    /\ clinicalData' = IF ok
                       THEN SpreadMerge(extractions[r].existing, extractions[r].fields)
                       ELSE clinicalData
    /\ UNCHANGED <<callVars, settled, peer, stored, twiml>>

NextExtract ==
    \/ \E r \in 1..MaxRequests, output \in ExtractedData : ExtractParsed(r, output)
    \/ \E r \in 1..MaxRequests : ExtractFailed(r)
    \/ \E r \in 1..MaxRequests, ok \in BOOLEAN : ExtractFetched(r, ok)
    \/ \E r \in 1..MaxRequests, ok \in BOOLEAN : ExtractUpdated(r, ok)

SpecExtract == Init /\ [][NextExtract]_vars

(***************************************************************************)
(* Vocabulary of the properties.                                           *)
(***************************************************************************)
IsAssistantMessage(item) == item.type = "message" /\ item.role = "assistant"

\* the normalized text of an assistant item holds more than one question mark
IsMultiQuestion(item) ==
    IsAssistantMessage(item) /\ QmCount(NormalizeContent(item.content)) > 1

\* the step just taken handled a conversation.item.created event
ItemStep == lastEvent'.kind = "conversation.item.created"

\* what the step just taken sent on the model leg and logged
SentNow == SubSeq(modelOut', Len(modelOut) + 1, Len(modelOut'))

LoggedNow == SubSeq(saved', Len(saved) + 1, Len(saved'))

Types(cmds) == [i \in DOMAIN cmds |-> cmds[i].type]

\* position of the first question mark of a text that holds one
FirstQmPos(s) ==
    CHOOSE i \in 1..Len(s) : s[i] = "?" /\ \A j \in 1..(i - 1) : s[j] # "?"

\* the text cut after its first question mark
TruncateAtFirstQm(s) == SubSeq(s, 1, FirstQmPos(s))

\* the text before its first question mark
BeforeFirstQm(s) == SubSeq(s, 1, FirstQmPos(s) - 1)

\* texts logged or resubmitted by the step just taken
CorrectedTexts ==
    {LoggedNow[i].content : i \in DOMAIN LoggedNow}
    \cup {SentNow[i].text : i \in {j \in DOMAIN SentNow :
                                     SentNow[j].type = "conversation.item.create"}}

GreetingCount == Len(SelectSeq(modelOut, LAMBDA c : c = GreetingItem))

C2_GreetingAtMostOnce ==
    /\ GreetingCount <= 1
    /\ greetingSent <=> GreetingCount = 1
    /\ \A i \in DOMAIN modelOut :
          modelOut[i] = GreetingItem
             => i < Len(modelOut) /\ modelOut[i + 1] = ResponseCreate

\* the greeting went out and every timer has fired since
C2_Witness ==
    /\ GreetingCount = 1
    /\ readyState = "OPEN"
    /\ wantGreeting
    /\ greetTimers = 0
    /\ ~fallbackTimer

(***************************************************************************)
(* C6: after the telephony leg has closed, the model leg is closed or      *)
(* closing; it is never left open.  Refuted when the telephony leg closes  *)
(* while the model connection is still being established.                  *)
(***************************************************************************)
C6_NoDanglingModelLeg == ~connOpen => readyState # "OPEN"

(***************************************************************************)
(* C7: when the model leg closes after having been open, the telephony     *)
(* leg is closed too.                                                      *)
(***************************************************************************)
C7_ModelCloseClosesTelephony ==
    (readyState = "CLOSED" /\ modelOut # <<>>) => ~connOpen

(***************************************************************************)
(* C8: when the model connection fails before it opens, the session ends:  *)
(* the telephony leg is closed and no further frame is processed.          *)
(***************************************************************************)
C8_StartupFailureEndsSession ==
    (readyState = "CLOSED" /\ modelOut = <<>>) => (~connOpen /\ ~streamStarted)

(***************************************************************************)
(* C9: the Controller never has more than one response trigger             *)
(* outstanding.                                                            *)
(***************************************************************************)
C9_AtMostOneOutstanding == outstanding <= 1

(***************************************************************************)
(* C10: whatever the handler of a multi-question assistant utterance       *)
(* sends on the model leg is response.cancel, then conversation.item.create *)
(* carrying a single question, then response.create, with nothing between  *)
(* them; with the conversation set and the leg open it does send them.     *)
(***************************************************************************)
C10_CancelThenResubmit ==
    [][(ItemStep /\ IsMultiQuestion(lastEvent'.item))
        => /\ SubSeq(modelOut', 1, Len(modelOut)) = modelOut
           /\ (SentNow # <<>> \/ (wsConversationId # NULL /\ readyState = "OPEN"))
                 => /\ Types(SentNow) = <<"response.cancel",
                                          "conversation.item.create",
                                          "response.create">>
                    /\ QmCount(SentNow[2].text) = 1]_vars

\* a multi-question utterance was corrected after an audio frame had been forwarded
C10_Witness ==
    /\ lastEvent.kind = "conversation.item.created"
    /\ IsMultiQuestion(lastEvent.item)
    /\ Len(modelOut) >= 5
    /\ modelOut[Len(modelOut) - 3].type = "input_audio_buffer.append"
    /\ modelOut[Len(modelOut) - 2] = ResponseCancel
    /\ modelOut[Len(modelOut)] = ResponseCreate

(***************************************************************************)
(* Vocabulary of the closing properties.                                   *)
(***************************************************************************)
\* the step just taken handled a caller transcript; its text
TranscriptStep == lastEvent'.kind = "transcript"

HeardNow == lastEvent'.item.content[1].transcript

LegsOpen == connOpen /\ readyState = "OPEN"

(***************************************************************************)
(* C3: pendingClose holds only when medical history, medications and       *)
(* allergies are all covered; an end-of-call utterance received while a    *)
(* category is missing does not set pendingClose, requests no summary and  *)
(* leaves the session in INTAKE_ACTIVE.                                    *)
(***************************************************************************)
C3_ClosingGate ==
    /\ [](pendingClose => coverage = CategorySet)
    /\ [][(TranscriptStep /\ MatchesEndIntent(HeardNow) /\ coverage # CategorySet)
           => /\ ~pendingClose'
              /\ summaryRequests' = summaryRequests
              /\ Phase' # "CLOSE_REQUESTED"
              /\ LegsOpen' => Phase' = "INTAKE_ACTIVE"]_vars

\* an end-of-call utterance arrived with two categories missing and was answered
\* by the follow-up naming them
C3_Witness ==
    /\ lastEvent.kind = "transcript"
    /\ lastEvent.item.content[1].transcript = <<"bye">>
    /\ coverage = {"medical_history"}
    /\ ~pendingClose
    /\ Phase = "INTAKE_ACTIVE"
    /\ Len(modelOut) >= 3
    /\ modelOut[Len(modelOut) - 1]
          = SingleItem(FollowUpText(<<"current_medications", "allergies">>))

C5_CloseRequestedOnce ==
    /\ [](summaryRequests <= 1 /\ (pendingClose <=> summaryRequests = 1))
    /\ [][(TranscriptStep /\ MatchesEndIntent(HeardNow) /\ coverage = CategorySet)
           => /\ pendingClose'
              /\ summaryRequests' = IF pendingClose THEN summaryRequests
                                    ELSE summaryRequests + 1
              /\ summaryPending' = (summaryPending \/ ~pendingClose)]_vars

\* a second end-of-call utterance arrived after the summary had been spoken
C5_Witness ==
    /\ lastEvent.kind = "transcript"
    /\ lastEvent.item.content[1].transcript = <<"bye">>
    /\ pendingClose
    /\ summaryRequests = 1
    /\ ~summaryPending
    /\ Len(saved) >= 2
    /\ saved[Len(saved) - 1].content = SummaryText
    /\ saved[Len(saved)].content = <<"bye">>

(***************************************************************************)
(* Vocabulary of the logging, greeting and relay properties.               *)
(***************************************************************************)
\* the program's own state: everything but the records of what arrived
sessionVars == <<readyState, connOpen, streamSid, streamStarted, greetingSent,
                 wantGreeting, wsConversationId, fallbackTimer, greetTimers,
                 modelOut, telOut, saved, outstanding, closingVars>>

\* the step just taken handled the report of a submitted item; that item's command
EchoStep == echoed' = echoed + 1

EchoedCmd == Submitted[echoed + 1]

\* the step just taken handled a telephony media frame
MediaStep == Len(mediaIn') = Len(mediaIn) + 1

PayloadsOf(frames) == [i \in DOMAIN frames |-> frames[i].payload]

\* payloads forwarded to the model leg, and to the telephony leg
Appended == SelectSeq(modelOut, LAMBDA c : c.type = "input_audio_buffer.append")

AppendedPayloads == [i \in DOMAIN Appended |-> Appended[i].audio]

ForwardedPayloads == PayloadsOf(telOut)

\* frames that arrived while the leg they are relayed to was open
ArrivedOpen(frames) == SelectSeq(frames, LAMBDA f : f.open)

\* audio events with a delta that arrived while the telephony leg was open
Relayable == SelectSeq(deltaIn, LAMBDA f : f.open /\ f.payload # "")

RECURSIVE IsSubseq(_, _)
IsSubseq(a, b) ==
    IF a = <<>> THEN TRUE
    ELSE IF b = <<>> THEN FALSE
    ELSE IF Head(a) = Head(b) THEN IsSubseq(Tail(a), Tail(b))
    ELSE IsSubseq(a, Tail(b))

\* the bytes a base64 text stands for, and their canonical base64 text
Base64Decode(b) ==
    IF b \in {"QQ", "QQ=="} THEN <<65>>
    ELSE IF b = "Qg==" THEN <<66>>
    ELSE <<>>

Base64Encode(bytes) ==
    IF bytes = <<65>> THEN "QQ=="
    ELSE IF bytes = <<66>> THEN "Qg=="
    ELSE ""

Usable(id) == id # NULL /\ id # "null"

(***************************************************************************)
(* C11: a rejected multi-question utterance puts exactly one entry in the  *)
(* message log, the truncated one, and not the original text; when the     *)
(* model reports the resubmitted item as created, nothing more is logged.  *)
(***************************************************************************)
C11_SingleLogEntry ==
    [][/\ (ItemStep /\ ~EchoStep /\ IsMultiQuestion(lastEvent'.item)
              /\ wsConversationId # NULL)
          => /\ Len(LoggedNow) = 1
             /\ QmCount(LoggedNow[1].content) = 1
             /\ LoggedNow[1].content # NormalizeContent(lastEvent'.item.content)
       /\ (EchoStep /\ EchoedCmd # GreetingItem) => LoggedNow = <<>>]_vars

(***************************************************************************)
(* C12: an assistant utterance whose text holds zero or one question mark  *)
(* is logged with that text unchanged (one entry, when the conversation is *)
(* set), and its handler sends nothing on the model leg.                   *)
(***************************************************************************)
C12_PassThrough ==
    [][(ItemStep /\ IsAssistantMessage(lastEvent'.item)
           /\ QmCount(NormalizeContent(lastEvent'.item.content)) <= 1)
        => /\ modelOut' = modelOut
           /\ outstanding' = outstanding
           /\ LoggedNow =
                 IF wsConversationId # NULL
                 THEN <<Message(wsConversationId, "assistant",
                                NormalizeContent(lastEvent'.item.content))>>
                 ELSE <<>>]_vars

\* an utterance with one question mark followed by more text was logged as it is
C12_Witness ==
    /\ lastEvent.kind = "conversation.item.created"
    /\ lastEvent.item.content = <<T(<<"a", "?", " ", "a">>)>>
    /\ saved = <<Message("c1", "assistant", <<"a", "?", " ", "a">>)>>
    /\ modelOut = <<SessionUpdate, GreetingItem, ResponseCreate>>

(***************************************************************************)
(* C13: every assistant message with more than one question mark that      *)
(* arrives while the model leg is open is answered by the cancel and       *)
(* resubmit correction, whether or not the conversation is set.            *)
(***************************************************************************)
C13_EveryUtteranceCorrected ==
    [][(ItemStep /\ IsMultiQuestion(lastEvent'.item) /\ readyState = "OPEN")
        => Types(SentNow) = <<"response.cancel", "conversation.item.create",
                              "response.create">>]_vars

(***************************************************************************)
(* C14: the greeting is on the model leg only after a session.updated      *)
(* event has been received.                                                *)
(***************************************************************************)
C14_GreetingAfterConfigured == GreetingCount > 0 => wantGreeting

(***************************************************************************)
(* C15: the greeting is on the model leg only after the telephony start    *)
(* event has been received and its stream handle recorded.                 *)
(***************************************************************************)
C15_GreetingAfterStart ==
    (\E i \in DOMAIN modelOut : modelOut[i] \in {GreetingItem, InitialGreeting})
       => streamSid # NULL

(***************************************************************************)
(* C16: once the model leg is open and the start event has been received,  *)
(* the greeting is eventually sent unless a leg closes first, in every     *)
(* order of open, start and session.updated, and without session.updated:  *)
(* while the greeting is still due, the fallback timer is pending.         *)
(***************************************************************************)
C16_GreetingEventuallySent ==
    /\ []((readyState = "OPEN" /\ streamStarted /\ ~greetingSent) => fallbackTimer)
    /\ (readyState = "OPEN" /\ streamStarted) ~> (greetingSent \/ ~LegsOpen)

\* the greeting went out although session.updated never arrived and every timer has fired
C16_Witness ==
    /\ GreetingCount = 1
    /\ LegsOpen
    /\ ~wantGreeting
    /\ ~fallbackTimer
    /\ greetTimers = 0

(***************************************************************************)
(* C17: a media frame that arrives while the model leg is not open changes *)
(* nothing in the session, and the audio forwarded to the model leg is     *)
(* exactly the frames that arrived while it was open: a dropped frame is   *)
(* not forwarded later.                                                    *)
(***************************************************************************)
C17_DroppedWhileNotOpen ==
    /\ [](AppendedPayloads = PayloadsOf(ArrivedOpen(mediaIn)))
    /\ [][(MediaStep /\ readyState # "OPEN") => UNCHANGED sessionVars]_vars

\* a frame was dropped before the model leg opened, and the next one was forwarded alone
C17_Witness ==
    /\ mediaIn = <<Received("QQ", FALSE), Received("QQ==", TRUE)>>
    /\ AppendedPayloads = <<"QQ==">>
    /\ readyState = "OPEN"

C19_FramesCarryStreamSid == \A i \in DOMAIN telOut : telOut[i].streamSid # NULL

(***************************************************************************)
(* C20: after the start event the conversation of the session is the       *)
(* customParameters value when that is present and not "null", also when   *)
(* the query string carries a different one; otherwise it is the query     *)
(* string value, when that is present and not "null".                      *)
(***************************************************************************)
C20_CustomParametersPreferred ==
    streamStarted
       => wsConversationId = (IF Usable(startCp) THEN startCp
                              ELSE IF Usable(queryId) THEN queryId
                              ELSE NULL)

\* both carried a conversation id, they differed, and the start payload's was taken
C20_Witness ==
    /\ streamStarted
    /\ queryId = "q1"
    /\ startCp = "c1"
    /\ wsConversationId = "c1"

(***************************************************************************)
(* C21: the conversation of the session is unset or a real identifier,     *)
(* never the text "null", whether the query string or the start payload    *)
(* carried "null"; no log entry is written under the conversation "null".  *)
(***************************************************************************)
C21_NeverLiteralNull ==
    /\ wsConversationId # "null"
    /\ \A i \in DOMAIN saved : saved[i].conversation_id # "null"

\* both the query string and the start payload carried "null"; an assistant message
\* then arrived and was not logged
C21_Witness ==
    /\ queryId = "null"
    /\ startCp = "null"
    /\ streamStarted
    /\ wsConversationId = NULL
    /\ lastEvent.kind = "conversation.item.created"
    /\ IsAssistantMessage(lastEvent.item)
    /\ saved = <<>>

(***************************************************************************)
(* C30: the Turn Enforcer does not act on its own output.  The report of a *)
(* resubmitted item sends nothing on the model leg; an event sends the     *)
(* cancel and resubmit commands, once each, exactly when it is a           *)
(* multi-question utterance of the model; and the resubmitted text is left *)
(* alone by a second application of the rule.                              *)
(***************************************************************************)
C30_EnforcerIdempotent ==
    [][ItemStep
        => /\ EchoStep => (modelOut' = modelOut /\ outstanding' = outstanding)
           /\ Len(SelectSeq(SentNow, LAMBDA c : c = ResponseCancel))
                 = (IF ~EchoStep /\ IsMultiQuestion(lastEvent'.item)
                       /\ wsConversationId # NULL /\ readyState = "OPEN"
                    THEN 1 ELSE 0)
           /\ \A i \in DOMAIN SentNow :
                 SentNow[i].type = "conversation.item.create"
                    => /\ EnforceCmds(NormalizeContent(EchoOf(SentNow[i]).content)) = <<>>
                       /\ LoggedText(NormalizeContent(EchoOf(SentNow[i]).content))
                             = SentNow[i].text]_vars

\* the model reported the resubmitted question as created and one cancel has been sent
C30_Witness ==
    /\ echoed = 2
    /\ lastEvent = Event("conversation.item.created", EchoOf(SingleItem(<<"a", "?">>)))
    /\ Len(modelOut) = 6
    /\ Len(SelectSeq(modelOut, LAMBDA c : c = ResponseCancel)) = 1

(***************************************************************************)
(* Vocabulary of the stored clinical data.                                 *)
(***************************************************************************)
HasValue(v) == v \notin {NULL, ""}

Finished(r) == extractions[r].pc = "done"

\* request r writes its merge of the record, and the write succeeds
MergeStep(r) ==
    /\ extractions[r].pc = "fetched"
    /\ extractions'[r].pc = "done"
    /\ ~extractions'[r].failed

\* no request is under way, and no read or write of the record failed
AllSettled ==
    \A r \in 1..MaxRequests :
        extractions[r].pc \in {"none", "done"} /\ ~extractions[r].failed

(***************************************************************************)
(* C22: a key of the accumulated clinical data that holds a non-empty      *)
(* value still holds a non-empty value after every later merge, also one   *)
(* whose result carries an empty value for that key.                       *)
(***************************************************************************)
C22_CoverageMonotonic ==
    [][\A r \in 1..MaxRequests :
          MergeStep(r) /\ extractions[r].existing = clinicalData
             => \A k \in ClinicalKeys :
                   HasValue(clinicalData[k]) => HasValue(clinicalData'[k])]_vars

(***************************************************************************)
(* C29: when the requests of a conversation have all completed, none of    *)
(* them with a failed read or write, the stored clinical data holds every  *)
(* key of every extraction result, also when they ran concurrently.        *)
(***************************************************************************)
C29_NoLostFields ==
    AllSettled
       => \A r \in 1..MaxRequests :
             Finished(r)
                => \A k \in ClinicalKeys :
                      extractions[r].fields[k] # NULL => clinicalData[k] # NULL

(***************************************************************************)
(* C26: a caller transcript with non-empty text received while the         *)
(* conversation reference is set results in exactly one append of a caller *)
(* message and one extraction request; with the reference unset (absent,   *)
(* or the literal "null") neither is issued.                               *)
(***************************************************************************)
C26_TranscriptDispatch ==
    [][TranscriptStep
        => IF Usable(queryId) /\ HeardNow # <<>>
           THEN /\ LoggedNow = <<Message(queryId, "user", HeardNow)>>
                /\ extractionsPending' = extractionsPending + 1
           ELSE /\ LoggedNow = <<>>
                /\ extractionsPending' = extractionsPending]_vars

(***************************************************************************)
(* Vocabulary of the telephony frames.                                     *)
(***************************************************************************)
\* the step just taken handled a telephony message; that message
FrameStep == lastEvent'.kind = "telephony"

FrameNow == lastEvent'.item

\* not JSON, or without what its event type reads: data.start with its streamSid
\* for 'start', data.media with its payload for 'media'
Malformed(frame) ==
    \/ ~frame.json
    \/ /\ frame.event = "start"
       /\ (~frame.start.present \/ frame.start.streamSid = UNDEFINED)
    \/ /\ frame.event = "media"
       /\ (~frame.media.present \/ frame.media.payload = UNDEFINED)

Unrecognized(frame) == frame.json /\ frame.event \notin {"start", "media"}

(***************************************************************************)
(* C24: a telephony frame that is not valid JSON or lacks the fields its   *)
(* event type needs leaves streamSid, streamStarted, the conversation      *)
(* reference and greetingSent unchanged and sends nothing to the model     *)
(* leg.                                                                    *)
(***************************************************************************)
C24_MalformedDropped ==
    [][FrameStep /\ Malformed(FrameNow)
        => /\ UNCHANGED <<streamSid, streamStarted, wsConversationId, greetingSent>>
           /\ modelOut' = modelOut]_vars

(***************************************************************************)
(* C28: a telephony frame whose event is neither 'start' nor 'media'       *)
(* changes no session state and sends nothing on either leg.               *)
(***************************************************************************)
C28_UnrecognizedIgnored ==
    [][FrameStep /\ Unrecognized(FrameNow) => UNCHANGED sessionVars]_vars

\* an unrecognized frame that carries start and media objects has arrived after
\* the stream started and the model leg opened
C28_Witness ==
    /\ lastEvent = Event("telephony",
                         Frame(TRUE, "mark", StartOf("MZ2", "c1"), MediaOf("QQ==")))
    /\ readyState = "OPEN"
    /\ streamSid = "MZ1"
    /\ greetingSent

(***************************************************************************)
(* Vocabulary of the collaborator calls.                                   *)
(***************************************************************************)
\* calls dispatched and not yet settled
Pending == (Len(saved) - settled) + extractionsPending

\* the two legs, and what the session's handlers decide by and have sent or logged
legs == <<readyState, connOpen>>

controlVars == <<streamSid, streamStarted, greetingSent, wantGreeting,
                 wsConversationId, isIntroPhase, endingCall, fallbackTimer,
                 greetTimers, modelOut, telOut, saved, outstanding>>

\* the step just taken settled a call with an error result or an exception
FaultStep == lastEvent'.kind = "call.failed"

\* the step just taken handled an audio delta of the model
DeltaStep == Len(deltaIn') = Len(deltaIn) + 1

(***************************************************************************)
(* C23: a failure of a persistence or extraction call, as an error result  *)
(* or as an exception, leaves both legs as they are and the session's      *)
(* control state unchanged.                                                *)
(***************************************************************************)
C23_FaultsSwallowed ==
    [][FaultStep => UNCHANGED <<legs, controlVars>>]_vars

\* a call has just failed while both legs are open and the stream has started
C23_Witness ==
    /\ lastEvent.kind = "call.failed"
    /\ settled = 1
    /\ readyState = "OPEN"
    /\ connOpen
    /\ streamStarted

(***************************************************************************)
(* C25: while calls dispatched earlier are pending, a media frame arriving *)
(* with the model leg open is appended to the model leg in the step that   *)
(* receives it, and an audio delta is forwarded to the telephony leg in    *)
(* the step that receives it.                                              *)
(***************************************************************************)
C25_RelayNotBlocked ==
    [][Pending > 0
        => /\ (MediaStep /\ readyState = "OPEN")
                => modelOut' = Append(modelOut,
                                      AudioAppend(mediaIn'[Len(mediaIn')].payload))
           /\ (DeltaStep /\ connOpen /\ deltaIn'[Len(deltaIn')].payload # "")
                => telOut' = Append(telOut,
                                    MediaFrame(streamSid,
                                        Base64RoundTrip(deltaIn'[Len(deltaIn')].payload)))]_vars

\* both directions have relayed a frame while two appends and two extraction
\* requests were dispatched and none has settled
C25_Witness ==
    /\ settled = 0
    /\ Len(saved) = 2
    /\ extractionsPending = 2
    /\ Len(Appended) = 1
    /\ Len(telOut) = 1

(***************************************************************************)
(* Vocabulary of the two sessions.                                         *)
(***************************************************************************)
\* the step just taken ran a handler of the second connection
PeerStep == lastEvent'.kind = "peer"

(***************************************************************************)
(* C27: with two sessions running, an event delivered to one of them       *)
(* leaves the other's streamSid, conversation reference, greetingSent,     *)
(* streamStarted and voice phase unchanged, and sends nothing on the       *)
(* other's legs.                                                           *)
(***************************************************************************)
C27_SessionsIsolated ==
    [][IF PeerStep THEN UNCHANGED ownVars ELSE peer' = peer]_vars

\* both sessions have started, each with its own stream and conversation, and
\* each has relayed audio in both directions
C27_Witness ==
    /\ streamSid = "MZ1" /\ wsConversationId = "c1"
    /\ peer.streamSid = "MZ2" /\ peer.wsConversationId = "c2"
    /\ Len(Appended) = 1 /\ Len(telOut) = 1
    /\ PeerAppends(peer) = 1 /\ Len(peer.telOut) = 1

(***************************************************************************)
(* Vocabulary of the assistant turns of the second server module.          *)
(***************************************************************************)
\* the step just taken handled response.done for the item whose creation the
\* step before it handled: the two events of one model response
TurnCompletes ==
    /\ lastEvent.kind = "conversation.item.created"
    /\ IsAssistantMessage(lastEvent.item)
    /\ lastEvent'.kind = "response.done"
    /\ lastEvent'.item = lastEvent.item

\* the creation of that item was logged as an assistant message
CreationLogged ==
    /\ saved # <<>>
    /\ saved[Len(saved)].role = "assistant"

(***************************************************************************)
(* C31: for one model response, the response.done event and the            *)
(* conversation.item.created event together produce at most one assistant  *)
(* append: when the creation of the item was logged, response.done for     *)
(* that item logs nothing.                                                 *)
(***************************************************************************)
C31_TurnLoggedOnce ==
    [][TurnCompletes /\ CreationLogged /\ Usable(queryId) => LoggedNow = <<>>]_vars

\* voice changes sent on the model leg so far
VoiceChanges == Len(SelectSeq(modelOut, LAMBDA c : c = VoiceUpdate))

(***************************************************************************)
(* C35: the session leaves the intro phase on the first caller transcript  *)
(* and, the model leg being open, sends the voice change in that step and  *)
(* in no other; a later transcript sends none, and the phase never returns *)
(* to intro.                                                               *)
(***************************************************************************)
C35_VoiceSwitchOnce ==
    /\ [](VoiceChanges <= 1)
    /\ [][/\ TranscriptStep
              => /\ ~isIntroPhase'
                 /\ SentNow = IF isIntroPhase /\ readyState = "OPEN"
                              THEN <<VoiceUpdate>> ELSE <<>>
          /\ ~TranscriptStep
              => /\ isIntroPhase' = isIntroPhase
                 /\ \A i \in DOMAIN SentNow : SentNow[i] # VoiceUpdate
          /\ ~isIntroPhase => ~isIntroPhase']_vars

\* a second caller transcript has been handled after the one that switched the voice
C35_Witness ==
    /\ lastEvent.kind = "transcript"
    /\ heard = 2
    /\ ~isIntroPhase
    /\ readyState = "OPEN"
    /\ VoiceChanges = 1

(***************************************************************************)
(* C33: the session configuration is the first command sent on the model   *)
(* leg: no audio append, greeting item or response trigger precedes it,    *)
(* however telephony frames interleave with the opening of the model leg.  *)
(***************************************************************************)
C33_ConfigurationFirst ==
    modelOut # <<>> => modelOut[1] \in {SessionUpdate, SessionUpdate2}

\* the stream started and a media frame arrived before the model leg opened, and
\* the leg has since opened and carried the greeting
C33_Witness ==
    /\ mediaIn = <<Received("QQ==", FALSE)>>
    /\ streamStarted
    /\ greetingSent
    /\ Len(modelOut) = 3
    /\ modelOut[1] = SessionUpdate

(***************************************************************************)
(* Vocabulary of the assistant text.                                       *)
(***************************************************************************)
\* the first word of a text that begins with one, and the words of a text
RECURSIVE FirstWord(_)
FirstWord(s) ==
    IF s = <<>> \/ IsSpace(Head(s)) THEN <<>>
    ELSE <<Head(s)>> \o FirstWord(Tail(s))

RECURSIVE Words(_)
Words(s) ==
    LET t == TrimLeft(s)
    IN  IF t = <<>> THEN <<>>
        ELSE <<FirstWord(t)>> \o Words(SubSeq(t, Len(FirstWord(t)) + 1, Len(t)))

\* the words of the fragments of an item, in order
RECURSIVE FragmentWords(_)
FragmentWords(content) ==
    IF content = <<>> THEN <<>>
    ELSE Words(PartText(Head(content))) \o FragmentWords(Tail(content))

HasNonEmptyFragment(content) ==
    \E i \in DOMAIN content : PartText(content[i]) # <<>>

\* the text as stated: the placeholder only for an item without a non-empty fragment
StatedText(content) ==
    IF HasNonEmptyFragment(content) THEN JoinSpace(FragmentWords(content))
    ELSE Placeholder

\* the text with the placeholder for every item whose fragments hold no word
WordsText(content) ==
    IF FragmentWords(content) # <<>> THEN JoinSpace(FragmentWords(content))
    ELSE Placeholder

\* the step just taken examined and logged `text` for the assistant item it handled
Examined(text) ==
    /\ readyState = "OPEN"
          => ((\E i \in DOMAIN SentNow : SentNow[i] = ResponseCancel)
                 <=> QmCount(text) > 1)
    /\ QmCount(text) <= 1
          => LoggedNow = <<Message(wsConversationId, "assistant", text)>>

(***************************************************************************)
(* C36 (as stated): the text examined and logged for an assistant item is  *)
(* its non-empty fragments joined by single spaces, whitespace collapsed   *)
(* and the ends trimmed; the placeholder for an item with no non-empty     *)
(* fragment.                                                               *)
(***************************************************************************)
C36_NormalizedAsStated ==
    [][ItemStep /\ IsAssistantMessage(lastEvent'.item) /\ wsConversationId # NULL
        => Examined(StatedText(lastEvent'.item.content))]_vars

(***************************************************************************)
(* C36 (amended): the same, with the placeholder for every item whose      *)
(* fragments hold nothing but whitespace.                                  *)
(***************************************************************************)
C36_Normalized ==
    [][ItemStep /\ IsAssistantMessage(lastEvent'.item) /\ wsConversationId # NULL
        => Examined(WordsText(lastEvent'.item.content))]_vars

\* an item of two fragments with tabs and line breaks has been logged as two words
C36_Witness ==
    /\ lastEvent = Event("conversation.item.created",
                         Item("message", "assistant",
                              <<T(<<"a", "\t", " ">>), T(<<"\n", "a">>)>>))
    /\ saved = <<Message("c1", "assistant", <<"a", " ", "a">>)>>

(***************************************************************************)
(* Vocabulary of the extraction output.                                    *)
(***************************************************************************)
\* the completion is not a mapping: prose, the literal null, a string
NotMapping(output) == output.kind \in {"prose", "null", "string"}

\* the step just taken was a step of request r
RequestStep(r) == extractions'[r] # extractions[r]

(***************************************************************************)
(* C37: a request whose extraction output is not a valid mapping inserts   *)
(* no clinical_extractions row, leaves clinical_data unchanged, and is     *)
(* answered with success.                                                  *)
(***************************************************************************)
C37_UnparseableWritesNothing ==
    [][\A r \in 1..MaxRequests :
          RequestStep(r) /\ NotMapping(extractions'[r].output)
             => /\ extractions'[r].rows = {}
                /\ clinicalData' = clinicalData
                /\ extractions'[r].pc = "done" => extractions'[r].reply = "success"]_vars

(***************************************************************************)
(* C32: of two utterances of one session, the one whose event was handled  *)
(* first is stored in the message log with the earlier timestamp.          *)
(***************************************************************************)
C32_LogOrderFollowsUtterances ==
    Usable(queryId) => \A a, b \in DOMAIN stored : a < b => stored[a] < stored[b]

(***************************************************************************)
(* C34: when creating the conversation record fails in the voice webhook,  *)
(* the connection instructions are still returned, the session runs with   *)
(* the conversation reference unset, audio is relayed in both directions,  *)
(* and no append is made for the session.                                  *)
(***************************************************************************)
C34_RecordFailureKeepsCall ==
    /\ [](twiml = "null" => wsConversationId = NULL /\ saved = <<>>)
    /\ [][/\ (twiml = NULL /\ twiml' # twiml) => twiml' \in {"null", "c1"}
          /\ twiml = "null"
               => /\ (MediaStep /\ readyState = "OPEN")
                       => modelOut' = Append(modelOut,
                                         AudioAppend(mediaIn'[Len(mediaIn')].payload))
                  /\ (DeltaStep /\ connOpen)
                       => telOut' = Append(telOut,
                                       MediaFrame(streamSid,
                                          Base64RoundTrip(deltaIn'[Len(deltaIn')].payload)))]_vars

\* the record was not created; the stream started with the parameter "null", audio
\* went both ways, and an assistant item was reported and not logged
C34_Witness ==
    /\ twiml = "null"
    /\ startCp = "null"
    /\ streamStarted
    /\ Len(Appended) = 1
    /\ Len(telOut) = 1
    /\ lastEvent.kind = "conversation.item.created"
    /\ IsAssistantMessage(lastEvent.item)
    /\ saved = <<>>

====
